---- MODULE Spec2Model ----
(***************************************************************************)
(* Model of src/src/result.ts: the class Result<Payload>, a value that     *)
(* wraps a deferred payload and classifies it structurally as Ok or Err.   *)
(*                                                                         *)
(* Every method of the class is an async function.  An async function runs *)
(* synchronously up to its first `await`, and resumes in a later turn of   *)
(* the job queue once the awaited value has settled.  A method is therefore*)
(* modelled as an invocation (the code up to the first await, which for    *)
(* every method of the class is a read of this.payload) followed by one    *)
(* resumption per await that is followed by a read of shared state.        *)
(* Other jobs (the settling of a deferred payload, a concurrent sync())    *)
(* may run between two resumptions.                                        *)
(***************************************************************************)
EXTENDS Integers, Sequences, FiniteSets, TLC

\* ------------------------------------------------------------------ bounds
\* how many times a caller goes on from an instance to the one it got back
MaxChain == 1
\* plain (non-Error, non-Option) payload values are the numbers 1..MaxVal
MaxVal == 2

\* ------------------------------------------------------------------ values
\* A JavaScript value.  kind is the path of constructors from the outside
\* in (<<"some", "plain">> is Some(n)), n the number, object identity or
\* Result reference it carries, msg the message of an Error.
Val(k, n, m) == [kind |-> k, n |-> n, msg |-> m]

Plain(n) == Val(<<"plain">>, n, "")
Undefined == Val(<<"undefined">>, 0, "")
Bool(b) == Val(<<"bool">>, IF b THEN 1 ELSE 0, "")
\* an Error object: n is its identity, 0 for an object allocated by the
\* code under test (`new Error(message)`), positive for the caller's
Error(n, m) == Val(<<"error">>, n, m)
NewError(m) == Error(0, m)
\* @marionebl/option: Option.Some(v), Option.None()
Some(v) == [v EXCEPT !.kind = <<"some">> \o v.kind]
None == Val(<<"none">>, 0, "")
\* a reference to the Result instance heap[r]
Ref(r) == Val(<<"result">>, r, "")
\* the promise created by the constructor, while this.payload still holds it
Deferred == Val(<<"deferred">>, 0, "")

\* `v instanceof Error`
IsError(v) == v.kind = <<"error">>
\* `v instanceof Option && v.isSome()`
IsSome(v) == Head(v.kind) = "some"
\* Option.unwrapOr on a Some: the contained value
Inner(v) == [v EXCEPT !.kind = Tail(v.kind)]

\* String(n) for the numbers the model uses
Digits == <<"0", "1", "2", "3", "4", "5", "6", "7", "8", "9">>
ToStr(n) == IF n < 10 THEN Digits[n + 1] ELSE Digits[(n \div 10) + 1] \o Digits[(n % 10) + 1]
\* String(v): what `new Error(String(payload))` carries as its message
String(v) ==
  CASE v.kind = <<"plain">> -> ToStr(v.n)
    [] v.kind = <<"undefined">> -> "undefined"
    [] v.kind = <<"bool">> -> IF v.n = 1 THEN "true" ELSE "false"
    [] v.kind = <<"error">> -> "Error: " \o v.msg
    [] OTHER -> "[object Object]"

\* the caller's Error objects
CallerErrors == {Error(1, "boom")}
\* the values a caller wraps: numbers, Errors and Options
Payloads == {Plain(n) : n \in 1..MaxVal} \cup CallerErrors \cup {Some(Plain(1)), None}
\* the values a caller's promise rejects with: an Error or a non-Error
Rejections == CallerErrors \cup {Plain(1)}
\* what a caller hands to a constructor: a value, a pending promise that
\* resolves to a value, or a pending promise that rejects
Inputs == [how : {"value", "resolves"}, val : Payloads] \cup [how : {"rejects"}, val : Rejections]
Value(v) == [how |-> "value", val |-> v]

\* ------------------------------------------------------------------ state
VARIABLES
  heap,    \* the Result instances the caller holds, in allocation order
  call,    \* the method invocation the caller is awaiting
  syncing, \* the instance with a concurrent sync() in flight, or 0
  chain    \* how many times the caller went on to a returned instance

vars == <<heap, call, syncing, chain>>

\* constructor: this.payload = Promise.resolve().then(() => payload).
\* The promise adopts the state of `payload` when that is a promise, and is
\* pending until it settles.  For a plain `payload` it is fulfilled before
\* any job other than the constructing one runs, so no resumption can see it
\* pending: it counts as settled from the start.  rejects/val is what the
\* promise settles to, settled whether it has; payload is the field
\* this.payload.  ctor records the static constructor that was called, by
\* who called it: the caller, or the method of the class that did.
NewResult(ctor, in) ==
  [ctor |-> ctor, by |-> "caller", rejects |-> in.how = "rejects", val |-> in.val,
   settled |-> in.how = "value", payload |-> Deferred]

\* (variant of from: an Error payload is thrown, so the promise rejects)
from_throwing(in) ==
  NewResult("from", IF IsError(in.val) THEN [how |-> "rejects", val |-> in.val] ELSE in)
from(in) == NewResult("from", in)
Ok(in) == NewResult("Ok", in)
Err(in) == NewResult("Err", in)

Refs == DOMAIN heap
\* the instance `cell`, constructed inside the method call c
Made(c, cell) == [cell EXCEPT !.by = c.op]

\* ------------------------------------------------------------------ callbacks
\* The functions a caller passes in.  Each is an async function: calling it
\* yields a promise that is fulfilled with val or rejected with val.
\*   increment  async i => i + 1
\*   zero       async () => 0
\*   nope       async () => new Error("nope")
\*   booh       async err => new Error(err.message + " Booh!")
\*   thrower    async () => { throw new Error("thrown") }
\* (x + 1 and x.message are only defined here for the arguments the model
\* passes: a number, an Error, or a non-Error without a message)
CallFn(f, x) ==
  CASE f = "increment" ->
         [raised |-> FALSE, val |-> IF x.kind = <<"plain">> THEN Plain(x.n + 1) ELSE Plain(0)]
    [] f = "zero" -> [raised |-> FALSE, val |-> Plain(0)]
    [] f = "nope" -> [raised |-> FALSE, val |-> Error(2, "nope")]
    [] f = "booh" ->
         [raised |-> FALSE,
          val |-> Error(2, (IF IsError(x) THEN x.msg ELSE "undefined") \o " Booh!")]
    [] OTHER -> [raised |-> TRUE, val |-> Error(3, "thrown")]

\* fn of map and unwrapOrElse
Fns == {"increment", "nope", "thrower"}
\* (fallback, fn) of mapOrElse
FnPairs == {<<"zero", "increment">>, <<"zero", "nope">>, <<"zero", "thrower">>,
            <<"nope", "increment">>, <<"thrower", "increment">>}
\* fn of mapErr, typed (err: Error) => Promise<Error>
ErrFns == {"booh", "thrower"}
\* message of expect and expectErr, fallback of unwrapOr
Message == Val(<<"string">>, 0, "Booh!")
FallbackValues == {Plain(0), Error(1, "boom")}

\* ------------------------------------------------------------------ calls
\* One invocation of a method: the receiver self, the arguments (fn, fb,
\* arg), the await it is suspended at (pc), the value it read from the field
\* payload of heap[on] and is awaiting (snap), the calls it made to the
\* caller's functions (invoked) and how it completed (out, ret).  early and
\* memo record how the call met the payload: early, it was invoked before
\* the deferred payload had settled; memo, one of its reads of the field
\* found the value a sync() had put there instead of the promise.
Idle ==
  [op |-> "none", self |-> 0, fn |-> "", fb |-> "", arg |-> Undefined, pc |-> "idle",
   on |-> 0, snap |-> Undefined, invoked |-> <<>>, out |-> "none", ret |-> Undefined,
   early |-> FALSE, memo |-> FALSE]

Return(c, v) ==
  [c EXCEPT !.pc = "done", !.on = 0, !.snap = Undefined, !.out = "return", !.ret = v]
Raise(c, v) ==
  [c EXCEPT !.pc = "done", !.on = 0, !.snap = Undefined, !.out = "raise", !.ret = v]
\* suspend at the await `pc` of the field payload of h[r]
Suspend(c, h, pc, r) ==
  [c EXCEPT !.pc = pc, !.on = r, !.snap = h[r].payload,
            !.memo = @ \/ h[r].payload # Deferred]
Spy(c, f, x) == [c EXCEPT !.invoked = Append(@, [fn |-> f, arg |-> x])]
St(c, h) == [c |-> c, h |-> h]

\* the body of isErr and of isOk once `await this.payload` has an outcome
isErrResult(o) == IF o.rejected THEN TRUE ELSE IsError(o.val)
\* (variants of isOk: the negation left out; the instanceof test left out)
isOkResult_negated(o) == IF o.rejected THEN FALSE ELSE IsError(o.val)
isOkResult_untested(o) == ~o.rejected
isOkResult(o) == IF o.rejected THEN FALSE ELSE ~IsError(o.val)

\* the outcome of the await the call c is suspended at
Awaited(c, h) ==
  IF c.snap = Deferred
    THEN [rejected |-> h[c.on].rejects, val |-> h[c.on].val]
    ELSE [rejected |-> FALSE, val |-> c.snap]

\* the assignment of sync() to the field payload of h[r]: the value awaited,
\* or the rejection value
Memo(h, r, o) == [h EXCEPT ![r].payload = o.val]

\* Each method below is the transition of one resumption: from the call c
\* suspended at c.pc and the heap h to the next call record and heap.

\* (variant of isErr: it stores what it awaited, as sync() does)
isErr_storing(c, h) ==
  St(Return(c, Bool(isErrResult(Awaited(c, h)))), Memo(h, c.self, Awaited(c, h)))

isErr(c, h) == St(Return(c, Bool(isErrResult(Awaited(c, h)))), h)

\* (variant of isOk: a payload still pending when isOk() is called is not
\* waited for and counts as not Ok)
isOk_unawaited(c, h) ==
  IF c.early
    THEN St(Return(c, Bool(FALSE)), h)
    ELSE St(Return(c, Bool(isOkResult(Awaited(c, h)))), h)

isOk(c, h) == St(Return(c, Bool(isOkResult(Awaited(c, h)))), h)

ok(c, h) ==
  LET o == Awaited(c, h) IN
  IF c.pc = "await1"
    THEN IF isOkResult(o)
           THEN St(Suspend(c, h, "await2", c.self), h)
           ELSE St(Return(c, None), h)
    ELSE IF o.rejected THEN St(Raise(c, o.val), h) ELSE St(Return(c, Some(o.val)), h)

\* (variants of err: the branches of the conditional swapped; no try/catch)
err_swapped(c, h) ==
  LET o == Awaited(c, h) IN
  IF o.rejected
    THEN St(Return(c, Some(o.val)), h)
    ELSE St(Return(c, IF IsError(o.val) THEN None ELSE Some(o.val)), h)
err_uncaught(c, h) ==
  LET o == Awaited(c, h) IN
  IF o.rejected
    THEN St(Raise(c, o.val), h)
    ELSE St(Return(c, IF IsError(o.val) THEN Some(o.val) ELSE None), h)

err(c, h) ==
  LET o == Awaited(c, h) IN
  IF o.rejected
    THEN St(Return(c, Some(o.val)), h)
    ELSE St(Return(c, IF IsError(o.val) THEN Some(o.val) ELSE None), h)

\* `Result.Ok(await fn(x))`, `Result.Err(await fn(x))`, `Result.Ok(await
\* fallback())`: call the caller's function, await its promise (a rejection
\* propagates out of the method), wrap the value in a new instance.
MapWith(c, h, f, x, ctor) ==
  LET r == CallFn(f, x)
      c1 == Spy(c, f, x) IN
  IF r.raised
    THEN St(Raise(c1, r.val), h)
    ELSE St(Return(c1, Ref(Len(h) + 1)),
            Append(h, Made(c, IF ctor = "Ok" THEN Ok(Value(r.val)) ELSE Err(Value(r.val)))))

\* (variant of map: fn is applied without the isOk() test)
map_untested(c, h) ==
  LET o == Awaited(c, h) IN
  IF c.pc = "await1"
    THEN St(Suspend(c, h, "await2", c.self), h)
    ELSE IF o.rejected THEN St(Raise(c, o.val), h) ELSE MapWith(c, h, c.fn, o.val, "Ok")

map(c, h) ==
  LET o == Awaited(c, h) IN
  IF c.pc = "await1"
    THEN IF isOkResult(o)
           THEN St(Suspend(c, h, "await2", c.self), h)
           ELSE St(Return(c, Ref(c.self)), h)
    ELSE IF o.rejected THEN St(Raise(c, o.val), h) ELSE MapWith(c, h, c.fn, o.val, "Ok")

\* (variant of mapOrElse: the Err branch of map, `return this`)
mapOrElse_asMap(c, h) ==
  LET o == Awaited(c, h) IN
  IF c.pc = "await1"
    THEN IF isOkResult(o)
           THEN St(Suspend(c, h, "await2", c.self), h)
           ELSE St(Return(c, Ref(c.self)), h)
    ELSE IF o.rejected THEN St(Raise(c, o.val), h) ELSE MapWith(c, h, c.fn, o.val, "Ok")

mapOrElse(c, h) ==
  LET o == Awaited(c, h) IN
  IF c.pc = "await1"
    THEN IF isOkResult(o)
           THEN St(Suspend(c, h, "await2", c.self), h)
           ELSE MapWith(c, h, c.fb, Undefined, "Ok")
    ELSE IF o.rejected THEN St(Raise(c, o.val), h) ELSE MapWith(c, h, c.fn, o.val, "Ok")

\* (variant of mapErr: fn is applied without the isErr() test)
mapErr_untested(c, h) ==
  LET o == Awaited(c, h) IN
  IF c.pc = "await1"
    THEN St(Suspend(c, h, "await2", c.self), h)
    ELSE IF o.rejected THEN St(Raise(c, o.val), h) ELSE MapWith(c, h, c.fn, o.val, "Err")

mapErr(c, h) ==
  LET o == Awaited(c, h) IN
  IF c.pc = "await1"
    THEN IF isErrResult(o)
           THEN St(Suspend(c, h, "await2", c.self), h)
           ELSE St(Return(c, Ref(c.self)), h)
    ELSE IF o.rejected THEN St(Raise(c, o.val), h) ELSE MapWith(c, h, c.fn, o.val, "Err")

\* (variant of and: no short-circuit on the receiver, b is always inspected)
and_unshorted(c, h) ==
  IF c.pc = "await1"
    THEN St(Suspend(c, h, "await2", c.arg.n), h)
    ELSE St(Return(c, c.arg), h)

\* and(b): `await b.isErr()` is awaited before b is returned on either branch
and(c, h) ==
  LET o == Awaited(c, h) IN
  IF c.pc = "await1"
    THEN IF isErrResult(o)
           THEN St(Return(c, Ref(c.self)), h)
           ELSE St(Suspend(c, h, "await2", c.arg.n), h)
    ELSE St(Return(c, c.arg), h)

\* (variant of or: the test negated, as in and)
or_negated(c, h) ==
  IF isErrResult(Awaited(c, h)) THEN St(Return(c, Ref(c.self)), h) ELSE St(Return(c, c.arg), h)

or(c, h) ==
  IF isOkResult(Awaited(c, h)) THEN St(Return(c, Ref(c.self)), h) ELSE St(Return(c, c.arg), h)

\* orElse(fn): `return fn()`; the caller's fn here is
\* async () => Result.from(0), or one that throws
\* (variant of orElse: fn is called before the isOk() test, as in or(fn()))
orElse_eager(c, h) ==
  IF isOkResult(Awaited(c, h))
    THEN St(Return(Spy(c, c.fn, Undefined), Ref(c.self)), h)
    ELSE IF c.fn = "thrower"
           THEN St(Raise(Spy(c, c.fn, Undefined), CallFn(c.fn, Undefined).val), h)
           ELSE St(Return(Spy(c, c.fn, Undefined), Ref(Len(h) + 1)),
                   Append(h, from(Value(CallFn(c.fn, Undefined).val))))

orElse(c, h) ==
  IF isOkResult(Awaited(c, h))
    THEN St(Return(c, Ref(c.self)), h)
    ELSE IF c.fn = "thrower"
           THEN St(Raise(Spy(c, c.fn, Undefined), CallFn(c.fn, Undefined).val), h)
           ELSE St(Return(Spy(c, c.fn, Undefined), Ref(Len(h) + 1)),
                   Append(h, from(Value(CallFn(c.fn, Undefined).val))))

\* `return this.payload!` resolves the method's promise with the field: the
\* caller sees what the field settles to
\* (variant of unwrapOr: `return this.payload` without the isErr() test)
unwrapOr_untested(c, h) ==
  LET o == Awaited(c, h) IN
  IF c.pc = "await1"
    THEN St(Suspend(c, h, "return", c.self), h)
    ELSE IF o.rejected THEN St(Raise(c, o.val), h) ELSE St(Return(c, o.val), h)

unwrapOr(c, h) ==
  LET o == Awaited(c, h) IN
  IF c.pc = "await1"
    THEN IF isErrResult(o)
           THEN St(Return(c, c.arg), h)
           ELSE St(Suspend(c, h, "return", c.self), h)
    ELSE IF o.rejected THEN St(Raise(c, o.val), h) ELSE St(Return(c, o.val), h)

unwrapOrElse(c, h) ==
  LET o == Awaited(c, h) IN
  CASE c.pc = "await1" ->
         IF isErrResult(o)
           THEN St(Suspend(c, h, "await2", c.self), h)
           ELSE St(Suspend(c, h, "return", c.self), h)
    [] c.pc = "await2" ->
         IF o.rejected
           THEN St(Raise(c, o.val), h)
           ELSE LET r == CallFn(c.fn, o.val)
                    c1 == Spy(c, c.fn, o.val) IN
                IF r.raised THEN St(Raise(c1, r.val), h) ELSE St(Return(c1, r.val), h)
    [] OTHER -> IF o.rejected THEN St(Raise(c, o.val), h) ELSE St(Return(c, o.val), h)

\* (variant of unwrap: `throw new Error(payload.message)` for `throw payload`)
unwrap_wrapped(c, h) ==
  LET o == Awaited(c, h) IN
  IF o.rejected \/ IsError(o.val)
    THEN St(Raise(c, NewError(o.val.msg)), h)
    ELSE St(Return(c, o.val), h)

unwrap(c, h) ==
  LET o == Awaited(c, h) IN
  IF o.rejected \/ IsError(o.val) THEN St(Raise(c, o.val), h) ELSE St(Return(c, o.val), h)

\* (variant of expect: the original failure is raised, as in unwrap)
expect_rethrow(c, h) ==
  LET o == Awaited(c, h) IN
  IF o.rejected \/ IsError(o.val) THEN St(Raise(c, o.val), h) ELSE St(Return(c, o.val), h)

expect(c, h) ==
  LET o == Awaited(c, h) IN
  IF o.rejected \/ IsError(o.val)
    THEN St(Raise(c, NewError(c.arg.msg)), h)
    ELSE St(Return(c, o.val), h)

\* (variant of unwrapErr: no try/catch, so the Error made for an Ok payload
\* and a rejection of the payload are thrown)
unwrapErr_throwing(c, h) ==
  LET o == Awaited(c, h) IN
  IF o.rejected
    THEN St(Raise(c, o.val), h)
    ELSE IF IsError(o.val)
           THEN St(Return(c, o.val), h)
           ELSE St(Raise(c, NewError(String(o.val))), h)

unwrapErr(c, h) ==
  LET o == Awaited(c, h) IN
  IF o.rejected \/ IsError(o.val)
    THEN St(Return(c, o.val), h)
    ELSE St(Return(c, NewError(String(o.val))), h)

\* (variant of expectErr: a rejection is answered with new Error(message),
\* as the catch block of expect does)
expectErr_message(c, h) ==
  LET o == Awaited(c, h) IN
  IF ~o.rejected /\ IsError(o.val)
    THEN St(Return(c, o.val), h)
    ELSE St(Return(c, NewError(c.arg.msg)), h)

expectErr(c, h) ==
  LET o == Awaited(c, h) IN
  IF o.rejected \/ IsError(o.val)
    THEN St(Return(c, o.val), h)
    ELSE St(Return(c, NewError(c.arg.msg)), h)

\* (variant of transpose: without the `payload instanceof Error` branch)
transpose_noErr(c, h) ==
  LET o == Awaited(c, h) IN
  CASE o.rejected -> St(Return(c, Some(o.val)), h)
    [] ~o.rejected /\ IsSome(o.val) ->
         St(Return(c, Some(Ref(Len(h) + 1))),
            Append(h, Made(c, Ok(Value(Inner(o.val))))))
    [] OTHER -> St(Return(c, None), h)

transpose(c, h) ==
  LET o == Awaited(c, h) IN
  CASE o.rejected -> St(Return(c, Some(o.val)), h)
    [] ~o.rejected /\ IsSome(o.val) ->
         St(Return(c, Some(Ref(Len(h) + 1))),
            Append(h, Made(c, Ok(Value(Inner(o.val))))))
    [] ~o.rejected /\ ~IsSome(o.val) /\ IsError(o.val) ->
         St(Return(c, Some(Ref(Len(h) + 1))),
            Append(h, Made(c, Err(Value(o.val)))))
    [] OTHER -> St(Return(c, None), h)

\* sync(): this.payload = await this.payload, or the rejection value
\* (variant of sync: no try/catch, a rejection is thrown and nothing stored)
sync_uncaught(c, h) ==
  LET o == Awaited(c, h) IN
  IF o.rejected
    THEN St(Raise(c, o.val), h)
    ELSE St(Return(c, Ref(c.self)), Memo(h, c.self, o))

sync(c, h) == St(Return(c, Ref(c.self)), Memo(h, c.self, Awaited(c, h)))

\* ------------------------------------------------------------------ actions
\* The state after construction: one instance, made by one of the three
\* static constructors from any input.  Err is typed to take an Error.
Init ==
  /\ \E in \in Inputs :
       \/ heap = <<from(in)>>
       \/ heap = <<Ok(in)>>
       \/ (in.how = "rejects" \/ IsError(in.val)) /\ heap = <<Err(in)>>
  /\ call = Idle
  /\ syncing = 0
  /\ chain = 0

\* the deferred payload of heap[r] settles
Settle(r) ==
  /\ ~heap[r].settled
  /\ heap' = [heap EXCEPT ![r].settled = TRUE]
  /\ UNCHANGED <<call, syncing, chain>>

\* the argument lists a caller may pass to each method
Nullary == {"isErr", "isOk", "ok", "err", "unwrap", "unwrapErr", "transpose", "sync"}
Args(op, fn, fb, arg) == [op |-> op, fn |-> fn, fb |-> fb, arg |-> arg]
Calls ==
  {Args(op, "", "", Undefined) : op \in Nullary}
    \cup {Args("map", fn, "", Undefined) : fn \in Fns}
    \cup {Args("mapOrElse", p[2], p[1], Undefined) : p \in FnPairs}
    \cup {Args("mapErr", fn, "", Undefined) : fn \in ErrFns}
    \cup {Args("orElse", fn, "", Undefined) : fn \in {"zero", "thrower"}}
    \cup {Args("unwrapOrElse", fn, "", Undefined) : fn \in Fns}
    \cup {Args("unwrapOr", "", "", v) : v \in FallbackValues}
    \cup {Args(op, "", "", Message) : op \in {"expect", "expectErr"}}

\* The caller invokes a method on the instance it holds, heap[r], once it
\* has taken the outcome of its previous call: the method runs up to its
\* first await, which in every method is an await of this.payload (directly,
\* or inside isOk()/isErr()).
StartOn(h, r, a) ==
  Suspend([Idle EXCEPT !.op = a.op, !.self = r, !.fn = a.fn, !.fb = a.fb, !.arg = a.arg,
                       !.early = ~h[r].settled],
          h, "await1", r)
Start(r, a) == StartOn(heap, r, a)

Invoke(r, a) ==
  /\ call.pc = "idle"
  /\ call' = Start(r, a)
  /\ UNCHANGED <<heap, syncing, chain>>

\* a.and(Result.from(x)), a.or(Result.from(x))
InvokeWith(r, op, in) ==
  /\ call.pc = "idle"
  /\ heap' = Append(heap, from(in))
  /\ call' = Start(r, Args(op, "", "", Ref(Len(heap) + 1)))
  /\ UNCHANGED <<syncing, chain>>

\* The caller takes the outcome of its completed call and keeps the
\* receiver, dropping any other instance (the argument b, a new instance the
\* call returned).
Keep ==
  /\ call.pc = "done"
  /\ call' = Idle
  /\ heap' = <<heap[1]>>
  /\ syncing' = IF syncing = 1 THEN 1 ELSE 0
  /\ UNCHANGED chain

\* The caller takes the outcome of its completed call and goes on with the
\* other instance (as in `(await a.map(fn)).isErr()`), dropping the receiver.
GoOn ==
  /\ call.pc = "done"
  /\ Len(heap) = 2
  /\ chain < MaxChain
  /\ call' = Idle
  /\ heap' = <<heap[2]>>
  /\ syncing' = IF syncing = 2 THEN 1 ELSE 0
  /\ chain' = chain + 1

\* A call of the method op resumes once the value it awaits has settled, and
\* takes the transition s of the method.
Resumable(op) ==
  /\ call.op = op
  /\ call.pc \notin {"idle", "done"}
  /\ call.snap # Deferred \/ heap[call.on].settled
Becomes(s) ==
  /\ call' = s.c
  /\ heap' = s.h
  /\ UNCHANGED <<syncing, chain>>

IsErr ==
  /\ Resumable("isErr")
  /\ Becomes(isErr(call, heap))

IsOk ==
  /\ Resumable("isOk")
  /\ Becomes(isOk(call, heap))

OkOpt ==
  /\ Resumable("ok")
  /\ Becomes(ok(call, heap))

ErrOpt ==
  /\ Resumable("err")
  /\ Becomes(err(call, heap))

Map ==
  /\ Resumable("map")
  /\ Becomes(map(call, heap))

MapOrElse ==
  /\ Resumable("mapOrElse")
  /\ Becomes(mapOrElse(call, heap))

MapErr ==
  /\ Resumable("mapErr")
  /\ Becomes(mapErr(call, heap))

And ==
  /\ Resumable("and")
  /\ Becomes(and(call, heap))

Or ==
  /\ Resumable("or")
  /\ Becomes(or(call, heap))

OrElse ==
  /\ Resumable("orElse")
  /\ Becomes(orElse(call, heap))

UnwrapOr ==
  /\ Resumable("unwrapOr")
  /\ Becomes(unwrapOr(call, heap))

UnwrapOrElse ==
  /\ Resumable("unwrapOrElse")
  /\ Becomes(unwrapOrElse(call, heap))

Unwrap ==
  /\ Resumable("unwrap")
  /\ Becomes(unwrap(call, heap))

Expect ==
  /\ Resumable("expect")
  /\ Becomes(expect(call, heap))

UnwrapErr ==
  /\ Resumable("unwrapErr")
  /\ Becomes(unwrapErr(call, heap))

ExpectErr ==
  /\ Resumable("expectErr")
  /\ Becomes(expectErr(call, heap))

Transpose ==
  /\ Resumable("transpose")
  /\ Becomes(transpose(call, heap))

Sync ==
  /\ Resumable("sync")
  /\ Becomes(sync(call, heap))

\* A sync() that runs concurrently with the caller's calls: invoked while
\* the field still holds the constructor's promise, it resumes once that
\* has settled.
SyncInvoke(r) ==
  /\ syncing = 0
  /\ heap[r].payload = Deferred
  /\ syncing' = r
  /\ UNCHANGED <<heap, call, chain>>

SyncResume ==
  /\ syncing # 0
  /\ heap[syncing].settled
  /\ heap' = Memo(heap, syncing, [rejected |-> heap[syncing].rejects, val |-> heap[syncing].val])
  /\ syncing' = 0
  /\ UNCHANGED <<call, chain>>

Next ==
  \/ \E r \in Refs : Settle(r)
  \/ Keep \/ GoOn
  \/ \E r \in Refs, a \in Calls : Invoke(r, a)
  \/ \E r \in Refs, in \in Inputs, op \in {"and", "or"} : InvokeWith(r, op, in)
  \/ IsErr \/ IsOk \/ OkOpt \/ ErrOpt
  \/ Map \/ MapOrElse \/ MapErr
  \/ And \/ Or \/ OrElse
  \/ UnwrapOr \/ UnwrapOrElse \/ Unwrap \/ Expect \/ UnwrapErr \/ ExpectErr
  \/ Transpose \/ Sync
  \/ \E r \in Refs : SyncInvoke(r)
  \/ SyncResume

Spec == Init /\ [][Next]_vars

\* ------------------------------------------------------------------ runs
\* The method of the call c, and a call run to completion on its own from
\* the heap h, every deferred payload of h having settled.
Resume(c, h) ==
  CASE c.op = "isErr" -> isErr(c, h)
    [] c.op = "isOk" -> isOk(c, h)
    [] c.op = "ok" -> ok(c, h)
    [] c.op = "err" -> err(c, h)
    [] c.op = "map" -> map(c, h)
    [] c.op = "mapOrElse" -> mapOrElse(c, h)
    [] c.op = "mapErr" -> mapErr(c, h)
    [] c.op = "and" -> and(c, h)
    [] c.op = "or" -> or(c, h)
    [] c.op = "orElse" -> orElse(c, h)
    [] c.op = "unwrapOr" -> unwrapOr(c, h)
    [] c.op = "unwrapOrElse" -> unwrapOrElse(c, h)
    [] c.op = "unwrap" -> unwrap(c, h)
    [] c.op = "expect" -> expect(c, h)
    [] c.op = "unwrapErr" -> unwrapErr(c, h)
    [] c.op = "expectErr" -> expectErr(c, h)
    [] c.op = "transpose" -> transpose(c, h)
    [] OTHER -> sync(c, h)

ResumeIfSuspended(s) == IF s.c.pc = "done" THEN s ELSE Resume(s.c, s.h)
RunAlone(h, a) ==
  LET h0 == [r \in DOMAIN h |-> [h[r] EXCEPT !.settled = TRUE]] IN
  ResumeIfSuspended(ResumeIfSuspended(ResumeIfSuspended(St(StartOn(h0, 1, a), h0))))

\* ------------------------------------------------------------------ properties
\* the receiver of the current call, and the call having completed
Self == heap[call.self]
Done(op) == call.pc = "done" /\ call.op = op
Returned(v) == call.out = "return" /\ call.ret = v

\* The three states of a receiver.  Its deferred payload resolved to a
\* non-Error value, resolved to an Error value, or rejected.  Rejected is
\* meant of the deferred payload as the call met it: a call that found the
\* rejection value stored in the field by a sync() is not counted.
HoldsValue == ~Self.rejects /\ ~IsError(Self.val)
HoldsError == ~Self.rejects /\ IsError(Self.val)
Rejected == Self.rejects /\ ~call.memo
ByCaller(ctor) == Self.ctor = ctor /\ Self.by = "caller"

C2_ErrInspection ==
  (call.pc = "done" /\ ByCaller("Err") /\ HoldsError) =>
    /\ call.op = "isErr" => Returned(Bool(TRUE))
    /\ call.op = "isOk" => Returned(Bool(FALSE))
    /\ call.op = "err" => Returned(Some(Self.val))
    /\ call.op = "ok" => Returned(None)

\* err() has returned Some(e), e the caller's own Error object, on an Err(e)
C2_Witness ==
  /\ Done("err") /\ ByCaller("Err") /\ HoldsError
  /\ Returned(Some(Error(1, "boom")))

Made2(h) == IF Len(h) = 2 THEN [ctor |-> h[2].ctor, by |-> h[2].by, rejects |-> h[2].rejects, val |-> h[2].val] ELSE None
Observed(c, h) == <<c.out, c.ret, c.invoked, Made2(h)>>
\* the instance constructed by the current call is `ctor`(v)
MadeNew(ctor, v) ==
  /\ Returned(Ref(2)) /\ Len(heap) = 2
  /\ heap[2].ctor = ctor /\ heap[2].by = call.op /\ ~heap[2].rejects /\ heap[2].val = v
InvokedOnce(f, x) == call.invoked = <<[fn |-> f, arg |-> x]>>

\* C4: on a Result in the Err state of either kind, unwrap() and expect()
\* are the only methods that raise: every other method, called with
\* callbacks that return normally, returns normally.
C4_OnlyUnwrapAndExpectRaise ==
  (/\ call.pc = "done" /\ (HoldsError \/ Rejected)
   /\ call.op \notin {"unwrap", "expect"}
   /\ call.fn # "thrower" /\ call.fb # "thrower") => call.out = "return"

\* C5: from(x) is observationally equivalent to Ok(x) for every non-Error x
\* and to Err(x) for every Error x, x given directly or as a pending promise:
\* what a completed call on a from(x) let its caller observe, and what the
\* same call lets it observe on from(x) given directly and as a pending
\* promise, is what it lets it observe on Ok(x), respectively Err(x).
C5_FromIsOkOrErr ==
  (call.pc = "done" /\ Self.by = "caller" /\ ~Self.rejects) =>
    LET x == Self.val
        twin == IF IsError(x) THEN Err(Value(x)) ELSE Ok(Value(x))
        rest == IF call.op \in {"and", "or"} THEN <<heap[2]>> ELSE <<>>
        alone(cell) ==
          LET run == RunAlone(<<cell>> \o rest, Args(call.op, call.fn, call.fb, call.arg))
          IN  Observed(run.c, run.h)
    IN  /\ Self.ctor = "from" => Observed(call, heap) = alone(twin)
        /\ \A how \in {"value", "resolves"} : alone(from([how |-> how, val |-> x])) = alone(twin)

\* mapErr(booh) has returned Err(new Error("boom Booh!")) on a from(promise
\* resolving to the Error "boom") that was pending when it was called
C5_Witness ==
  /\ Done("mapErr") /\ ByCaller("from") /\ HoldsError /\ call.early
  /\ MadeNew("Err", Error(2, "boom Booh!"))

\* C6: the variant is determined by the resolved payload alone: any Result
\* whose payload resolves to an Error value is Err, whoever constructed it
\* and with whichever constructor (Ok(e); the Result map or mapOrElse
\* returns when the callback yields an Error).
C6_ErrorPayloadIsErr ==
  (call.pc = "done" /\ HoldsError) =>
    /\ call.op = "isErr" => Returned(Bool(TRUE))
    /\ call.op = "isOk" => Returned(Bool(FALSE))

\* isErr() has returned true on the Result.Ok(...) that map constructed from
\* the Error its callback yielded
C6_Witness ==
  /\ Done("isErr") /\ Self.ctor = "Ok" /\ Self.by = "map" /\ HoldsError
  /\ Returned(Bool(TRUE))

C8_MapErrOnErr ==
  (Done("mapErr") /\ (HoldsError \/ Rejected)) =>
    /\ InvokedOnce(call.fn, Self.val)
    /\ ~CallFn(call.fn, Self.val).raised => MadeNew("Err", CallFn(call.fn, Self.val).val)

\* C9: mapErr(fn) on an Ok Result never invokes fn and returns the receiver
\* itself, so err() of what it returned is None.
C9_MapErrOnOk ==
  (call.pc = "done" /\ HoldsValue) =>
    /\ call.op = "mapErr" =>
         call.invoked = <<>> /\ Returned(Ref(call.self)) /\ Len(heap) = 1
    /\ call.op = "err" => Returned(None)

\* mapErr(booh) has returned the receiver, an Ok holding 1, without a call
\* of booh
C9_Witness ==
  /\ Done("mapErr") /\ HoldsValue /\ Self.val = Plain(1) /\ call.fn = "booh"
  /\ call.invoked = <<>> /\ Returned(Ref(1))

Arg == heap[call.arg.n]

Raised(v) == call.out = "raise" /\ call.ret = v

\* C14: unwrap() on an Ok Result returns its payload without raising; on a
\* Result holding an Error e it raises e itself, the same object with the
\* same content.
C14_Unwrap ==
  Done("unwrap") =>
    /\ HoldsValue => Returned(Self.val)
    /\ HoldsError => Raised(Self.val)

\* unwrap() has raised the caller's own Error "boom" on a Result holding it
C14_Witness ==
  /\ Done("unwrap") /\ HoldsError /\ Raised(Error(1, "boom"))

C17_UnwrapErrExpectErrThrow ==
  (call.pc = "done" /\ HoldsValue) =>
    /\ call.op = "unwrapErr" => Raised(NewError(String(Self.val)))
    /\ call.op = "expectErr" => Raised(NewError(call.arg.msg))

\* C18: unwrapOrElse(fn) returns the payload on an Ok Result without
\* invoking fn; on every Result in the Err state, whether it holds an Error e
\* or its deferred payload rejected with e, it invokes fn exactly once with e
\* and returns what fn yields.
C18_UnwrapOrElse ==
  Done("unwrapOrElse") =>
    /\ HoldsValue => call.invoked = <<>> /\ Returned(Self.val)
    /\ (HoldsError \/ Rejected) =>
         /\ InvokedOnce(call.fn, Self.val)
         /\ ~CallFn(call.fn, Self.val).raised => Returned(CallFn(call.fn, Self.val).val)

TransposedTo(ctor, v) ==
  /\ Returned(Some(Ref(2))) /\ Len(heap) = 2
  /\ heap[2].ctor = ctor /\ heap[2].by = "transpose" /\ ~heap[2].rejects /\ heap[2].val = v

\* C20: transpose() on a payload that resolved: Some(v) yields Some(Ok(v)),
\* None yields None, an Error e yields Some(Err(e)), and any other value
\* (neither an Option nor an Error) yields None.
C20_Transpose ==
  (Done("transpose") /\ ~Self.rejects) =>
    /\ IsSome(Self.val) => TransposedTo("Ok", Inner(Self.val))
    /\ Self.val = None => Returned(None) /\ Len(heap) = 1
    /\ IsError(Self.val) => TransposedTo("Err", Self.val)
    /\ Self.val.kind = <<"plain">> => Returned(None) /\ Len(heap) = 1

\* transpose() has returned Some(Ok(1)) on a Result holding Some(1)
C20_Witness ==
  /\ Done("transpose") /\ Self.val = Some(Plain(1)) /\ TransposedTo("Ok", Plain(1))

\* C21: transpose() on a Result whose deferred payload rejects with f returns
\* Some(Err(f)): an Option holding a Result in the Err state that carries f,
\* as it does for a Result holding an Error value.
C21_TransposeRejected ==
  (Done("transpose") /\ Rejected) => TransposedTo("Err", Self.val)

\* the answer of the nullary method op on the receiver as it was before any
\* sync(): the field payload still holding the constructor's promise
BeforeSync(op) ==
  RunAlone(<<[Self EXCEPT !.payload = Deferred]>>, Args(op, "", "", Undefined)).c.ret

\* C22: sync() does not change the observable state of a Result: for every
\* state of the deferred payload, isOk() and isErr() called after a sync()
\* has completed give the answers they gave before it was called.
C22_SyncKeepsState ==
  (call.pc = "done" /\ call.op \in {"isOk", "isErr"} /\ call.memo) =>
    Returned(BeforeSync(call.op))

C24_OnlySyncWrites ==
  [][(call'.op \notin {"none", "sync"} /\ (syncing = 0 \/ syncing' # 0)) =>
       \A r \in DOMAIN heap :
         /\ heap'[r].payload = heap[r].payload
         /\ heap'[r].val = heap[r].val
         /\ heap'[r].rejects = heap[r].rejects]_vars

\* and(b) has completed, as the second call of a sequence, and both the
\* receiver and b still hold the promise they were constructed with
C24_Witness ==
  /\ Done("and") /\ chain = 1 /\ Returned(Ref(2))
  /\ Self.payload = Deferred /\ Arg.payload = Deferred

\* C25: sync() resolves to the receiver itself, and once it has completed
\* the field payload holds the settled value (the resolved value, or the
\* rejection value) instead of the promise; it is write-once in effect: the
\* field of an instance only ever holds the promise or that one value,
\* however many sync() calls ran, one after the other or concurrently.
C25_Sync ==
  /\ Done("sync") => Returned(Ref(call.self)) /\ Self.payload = Self.val
  /\ \A r \in Refs : heap[r].payload \in {Deferred, heap[r].val}

\* a second sync(), which found the rejection value a first sync() had
\* stored, has completed and the field still holds that value
C25_Witness ==
  /\ Done("sync") /\ call.memo /\ Self.rejects
  /\ Returned(Ref(call.self)) /\ Self.payload = Self.val

\* C26: the outcome of a method call does not depend on how a sync() on the
\* same instance interleaves with it: whether a sync() completed before the
\* call, between its two reads of the payload, after it, or none was ever
\* called, the call lets its caller observe the same thing as on the
\* instance on which sync() was never called.
C26_SyncIndependent ==
  (call.pc = "done" /\ call.op # "sync") =>
    LET rest == IF call.op \in {"and", "or"} THEN <<heap[2]>> ELSE <<>>
        never == RunAlone(<<[Self EXCEPT !.payload = Deferred]>> \o rest,
                          Args(call.op, call.fn, call.fb, call.arg))
    IN  Observed(call, heap) = Observed(never.c, never.h)

====
